---------------------------- MODULE Spec2Model ----------------------------
(***************************************************************************)
(* Model of protocol/raw.go: the SecurityKey session-key state machine     *)
(* (GenerateProposal, AcceptProposal, Update, RKey, SKey) and the framing  *)
(* functions (XorMessageWith, Checksum, ValidateChecksum,                  *)
(* ValidateAndDecodeMessage).                                              *)
(*                                                                         *)
(* Go byte slices are TLA+ sequences: the Go index i is the TLA+ index     *)
(* i + 1.  A nil slice and an empty slice are both <<>> (the code only     *)
(* ever takes len() of them).  Bytes are naturals in 0..255 and every      *)
(* byte-typed arithmetic result is reduced modulo 256.                     *)
(***************************************************************************)
EXTENDS Naturals, Sequences, FiniteSets, TLC

(***************************************************************************)
(* Byte arithmetic.                                                        *)
(***************************************************************************)
ByteMod == 256

Byte == 0 .. (ByteMod - 1)

\* Go's a & b on bytes, bit by bit from the lowest.
RECURSIVE BitAnd(_, _)
BitAnd(a, b) ==
    IF a = 0 \/ b = 0 THEN 0
    ELSE (a % 2) * (b % 2) + 2 * BitAnd(a \div 2, b \div 2)

\* Go's a | b on bytes.
RECURSIVE BitOr(_, _)
BitOr(a, b) ==
    IF a = 0 THEN b
    ELSE IF b = 0 THEN a
    ELSE (IF (a % 2) + (b % 2) > 0 THEN 1 ELSE 0) + 2 * BitOr(a \div 2, b \div 2)

\* Go's a ^ b on bytes.
RECURSIVE BitXor(_, _)
BitXor(a, b) ==
    IF a = 0 THEN b
    ELSE IF b = 0 THEN a
    ELSE ((a + b) % 2) + 2 * BitXor(a \div 2, b \div 2)

\* Go's a >> n and a << n on bytes (the result is truncated to 8 bits).
ShiftRight(a, n) == a \div (2 ^ n)

ShiftLeft(a, n) == (a * (2 ^ n)) % ByteMod

(***************************************************************************)
(* SecurityState.                                                          *)
(***************************************************************************)
SecurityEmpty == 0

SecurityKeyProposed == 1

SecurityKeyAccepted == 2

(***************************************************************************)
(* Bounds and inputs of the SecurityKey machine.                           *)
(***************************************************************************)
\* An index may be advanced at most MaxCalls times between two Updates.
MaxCalls == 258

\* While one index runs long, the other has advanced at most MaxInterleave
\* times.
MaxInterleave == 1

\* In SpecIdem an index advances at most MaxIdemCalls times between two
\* Updates.
MaxIdemCalls == 2

\* Packets handed to Update: 11 bytes (one too short), the 12-byte scenario
\* packet (key 0xAD) and a 13-byte packet with other bits set around bit 3
\* (key 0x25).
Packets ==
    { <<255, 255, 255, 255, 255, 255, 255, 255, 255, 255, 255>>,
      <<0, 0, 0, 0, 8, 0, 8, 8, 0, 8, 0, 8>>,
      <<94, 12, 0, 1, 255, 247, 12, 0, 7, 24, 240, 128, 153>> }

\* The values rand.Intn(256) may produce for the 8 bytes of a proposal
\* (keys 0xAD and 0x25).
Proposals ==
    { <<8, 0, 8, 8, 0, 8, 0, 8>>,
      <<255, 247, 12, 0, 7, 24, 240, 128>> }

(***************************************************************************)
(* Bounds and inputs of the framing functions.                             *)
(***************************************************************************)
\* The remainder is handed back as the next buffer at most MaxFeeds times.
MaxFeeds == 3

\* First bytes of the frames the transport delivers.
FrameTypes == {0, 111}

\* Second bytes (declared lengths) of the frames: the shortest, some short
\* ones, and the three longest (total lengths 255, 256 and 257).
FrameLens == {1, 2, 3, 5, 253, 254, 255}

\* Bytes the frames are filled with after their third byte.
FrameFills == {2, 170}

\* Keys the frames are obfuscated with.
XorKeys == {0, 173}

\* Bytes a caller hands to XorMessageWith: none of the bits, the low bit, the
\* scenario key and all of the bits.
XorArgs == {0, 1, 173, 255}

\* A frame of declared length n >= 1: type, n, n - 1 further bytes (the
\* third byte of the frame, then the fill byte) and the sum of all these
\* modulo 256 as the last byte.
Frame(t, n, third, fill) ==
    LET body == [i \in 1 .. (n - 1) |-> IF i = 1 THEN third ELSE fill]
        sum  == IF n = 1 THEN t + n
                ELSE t + n + third + (n - 2) * fill
    IN  <<t, n>> \o body \o <<sum % 256>>

Frames ==
    { Frame(t, n, third, fill) :
        t \in FrameTypes, n \in FrameLens \ {1}, third \in {0, 1},
        fill \in FrameFills }
    \cup { Frame(t, 1, 0, 0) : t \in FrameTypes \cup {255} }

\* The frames that follow another frame in one buffer.
SecondFrames == {Frame(111, 2, 0, 0), Frame(0, 5, 0, 170)}

\* a XOR b for bytes, as the sum of the bits in which a and b differ.
XorOf(a, b) ==
    LET differ(w) == IF ((a \div w) % 2) # ((b \div w) % 2) THEN w ELSE 0
    IN  differ(1) + differ(2) + differ(4) + differ(8) + differ(16)
        + differ(32) + differ(64) + differ(128)

\* Frame f as it is on the wire under key x.
Obfuscated(f, x) == [i \in 1 .. Len(f) |-> XorOf(f[i], x)]

\* Buffers that are no frames: too short for a header, a bare header, and
\* frames with a wrong or a missing last byte.
RawBuffers ==
    { <<>>, <<16>>, <<0, 0>>, <<16, 3>>, <<255, 1, 0>>, <<16, 3, 170>>,
      <<0, 0, 0, 0>>, <<16, 3, 170, 187>>, <<16, 3, 0, 187, 207>>,
      <<111, 2, 0, 114>>, <<111, 2, 0, 113, 9>> }

\* What the transport may deliver: two obfuscated frames one after the
\* other ("pair"), one obfuscated frame ("single"), one frame obfuscated
\* with the key x1 ^ 1 while its third raw byte is x1, alone or followed by
\* other bytes ("flip"), and the raw buffers ("raw").
Inputs ==
    { [kind |-> "pair", f1 |-> f1, x1 |-> x1, f2 |-> f2, x2 |-> x2,
       tail |-> <<>>] :
        f1 \in {f \in Frames : f[3] = 0}, x1 \in XorKeys,
        f2 \in SecondFrames, x2 \in XorKeys }
    \cup
    { [kind |-> "single", f1 |-> f1, x1 |-> x1, f2 |-> <<>>, x2 |-> 0,
       tail |-> <<>>] :
        f1 \in {f \in Frames : f[3] = 0}, x1 \in XorKeys }
    \cup
    { [kind |-> "flip", f1 |-> f1, x1 |-> x1, f2 |-> <<>>, x2 |-> 0,
       tail |-> tail] :
        f1 \in {f \in Frames : f[3] = 1}, x1 \in XorKeys,
        tail \in {<<>>, <<7>>} }
    \cup
    { [kind |-> "raw", f1 |-> <<>>, x1 |-> 0, f2 |-> <<>>, x2 |-> 0,
       tail |-> tail] :
        tail \in RawBuffers }

\* The buffer the transport delivers for an input.
BufferOf(inp) ==
    CASE inp.kind = "pair" ->
            Obfuscated(inp.f1, inp.x1) \o Obfuscated(inp.f2, inp.x2)
      [] inp.kind = "single" -> Obfuscated(inp.f1, inp.x1)
      [] inp.kind = "flip" ->
            Obfuscated(inp.f1, XorOf(inp.x1, 1)) \o inp.tail
      [] OTHER -> inp.tail

VARIABLES
    State,        \* SecurityKey.State
    proposedKey,  \* SecurityKey.proposedKey
    securityKey,  \* SecurityKey.securityKey
    keyMap,       \* SecurityKey.keyMap
    sNum,         \* SecurityKey.sNum
    rNum,         \* SecurityKey.rNum
    op,           \* the last call made on the SecurityKey and what it returned
    rIncs,        \* times rNum was advanced since the last Update
    sIncs,        \* times sNum was advanced since the last Update
    seen,         \* the packets Update was called with, each with its outcome
    again,        \* the last Update got a packet seen before, indices advanced
    input,        \* how the transport's buffer was put together
    message,      \* the buffer handed to the framing functions
    valid,        \* what ValidateChecksum(message) returned
    outcome,      \* what ValidateAndDecodeMessage(message) returned
    fed,          \* times the remainder was handed back as the next buffer
    summed,       \* what Checksum(message) returned
    xored         \* what XorMessageWith returned for message, and for that again

keyVars == <<State, proposedKey, securityKey, keyMap, sNum, rNum>>

callVars == <<op, rIncs, sIncs>>

histVars == <<seen, again>>

frameVars == <<input, message, valid, outcome, fed, summed, xored>>

vars == <<keyVars, callVars, histVars, frameVars>>

(***************************************************************************)
(* SecurityKey.Update: the derivation of the key and of the key map.       *)
(***************************************************************************)
\* packet[i] for a Go index i.
At(packet, i) == packet[i + 1]

\* SecurityKeyOf with the shift of packet[10] repeated for packet[11].
SecurityKeyOfShift3(packet) ==
    LET r0 == ShiftRight(BitAnd(At(packet, 4), 8), 3)
        r1 == BitOr(r0, ShiftRight(BitAnd(At(packet, 5), 8), 2))
        r2 == BitOr(r1, ShiftRight(BitAnd(At(packet, 6), 8), 1))
        r3 == BitOr(r2, BitAnd(At(packet, 7), 8))
        r4 == BitOr(r3, ShiftLeft(BitAnd(At(packet, 8), 8), 1))
        r5 == BitOr(r4, ShiftLeft(BitAnd(At(packet, 9), 8), 2))
        r6 == BitOr(r5, ShiftLeft(BitAnd(At(packet, 10), 8), 3))
        r7 == BitOr(r6, ShiftLeft(BitAnd(At(packet, 11), 8), 3))
    IN  r7

\* The security key calculated from bytes 4..11 of the packet.
SecurityKeyOf(packet) ==
    LET r0 == ShiftRight(BitAnd(At(packet, 4), 8), 3)
        r1 == BitOr(r0, ShiftRight(BitAnd(At(packet, 5), 8), 2))
        r2 == BitOr(r1, ShiftRight(BitAnd(At(packet, 6), 8), 1))
        r3 == BitOr(r2, BitAnd(At(packet, 7), 8))
        r4 == BitOr(r3, ShiftLeft(BitAnd(At(packet, 8), 8), 1))
        r5 == BitOr(r4, ShiftLeft(BitAnd(At(packet, 9), 8), 2))
        r6 == BitOr(r5, ShiftLeft(BitAnd(At(packet, 10), 8), 3))
        r7 == BitOr(r6, ShiftLeft(BitAnd(At(packet, 11), 8), 4))
    IN  r7

\* keyMap[i] = byte(i) for every i.
IdentityMap == [i \in 1 .. 256 |-> i - 1]

\* ShuffleStep without temp: keyMap[index] gets the value keyMap[i] has after
\* it was overwritten.
ShuffleStepNoTemp(st, i, s_key) ==
    LET index == (st.index + st.keyMap[i + 1] + s_key) % 256
    IN  [index  |-> index,
         keyMap |-> [st.keyMap EXCEPT ![i + 1] = st.keyMap[index + 1]]]

\* One pass of the loop body for index i of the loop: index is moved on by
\* keyMap[i] and the key, then keyMap[i] and keyMap[index] are swapped.
ShuffleStep(st, i, s_key) ==
    LET index == (st.index + st.keyMap[i + 1] + s_key) % 256
        temp  == st.keyMap[i + 1]
    IN  [index  |-> index,
         keyMap |-> [st.keyMap EXCEPT ![i + 1] = st.keyMap[index + 1],
                                      ![index + 1] = temp]]

\* The passes of the loop for i = from, ..., to - 1, in order.  The range is
\* halved so that the evaluation nests 8 deep instead of 256; the test on
\* `first` (index is always a byte) makes the first half a value before the
\* second half starts from it.
RECURSIVE Shuffle(_, _, _, _)
Shuffle(st, from, to, s_key) ==
    IF to <= from THEN st
    ELSE IF to = from + 1 THEN ShuffleStep(st, from, s_key)
    ELSE LET mid   == (from + to) \div 2
             first == Shuffle(st, from, mid, s_key)
         IN  IF first.index \in Byte
             THEN Shuffle(first, mid, to, s_key)
             ELSE first

\* The key map generated from the security key.
KeySchedule(s_key) ==
    Shuffle([index |-> 0, keyMap |-> IdentityMap], 0, 256, s_key).keyMap

\* The key maps of all security keys, computed once.
RECURSIVE KeyMapTable(_, _)
KeyMapTable(lo, hi) ==
    IF hi = lo + 1 THEN lo :> KeySchedule(lo)
    ELSE KeyMapTable(lo, (lo + hi) \div 2) @@ KeyMapTable((lo + hi) \div 2, hi)

KeyMaps == KeyMapTable(0, 256)

\* UpdateFields whose short-packet branch forgets to clear the key map.
UpdateFieldsKeepMap(packet) ==
    IF Len(packet) < 12
    THEN [securityKey |-> 0, keyMap |-> keyMap, sNum |-> 0, rNum |-> 0]
    ELSE LET result == SecurityKeyOf(packet)
         IN  [securityKey |-> result,
              keyMap      |-> KeyMaps[result],
              sNum        |-> 0,
              rNum        |-> 0]

\* UpdateFields that shuffles the key map already in place instead of a
\* fresh identity table.
UpdateFieldsReuseMap(packet) ==
    IF Len(packet) < 12
    THEN [securityKey |-> 0, keyMap |-> <<>>, sNum |-> 0, rNum |-> 0]
    ELSE LET result == SecurityKeyOf(packet)
             start  == IF keyMap = <<>> THEN IdentityMap ELSE keyMap
         IN  [securityKey |-> result,
              keyMap      |-> Shuffle([index |-> 0, keyMap |-> start],
                                      0, 256, result).keyMap,
              sNum        |-> 0,
              rNum        |-> 0]

\* The fields Update assigns: cleared for a packet shorter than 12 bytes,
\* derived from the packet otherwise.
UpdateFields(packet) ==
    IF Len(packet) < 12
    THEN [securityKey |-> 0, keyMap |-> <<>>, sNum |-> 0, rNum |-> 0]
    ELSE LET result == SecurityKeyOf(packet)
         IN  [securityKey |-> result,
              keyMap      |-> KeyMaps[result],
              sNum        |-> 0,
              rNum        |-> 0]

Call(name, inc, ret, packet, out) ==
    [name |-> name, inc |-> inc, ret |-> ret, packet |-> packet, out |-> out]

\* The transport supplied nothing.
NoInput ==
    [kind |-> "none", f1 |-> <<>>, x1 |-> 0, f2 |-> <<>>, x2 |-> 0,
     tail |-> <<>>]

\* No ValidateAndDecodeMessage call was made yet.
NoResult ==
    [status |-> "none", decoded |-> <<>>, xor |-> 0,
     trailing |-> FALSE, remainder |-> <<>>]

\* No Checksum call was made yet.
NoSum == [status |-> "none", value |-> 0]

\* No XorMessageWith call was made yet.
NoXor == [status |-> "none", xor |-> 0, once |-> <<>>, twice |-> <<>>]

\* A zero-valued SecurityKey; nothing was called yet.
Init ==
    /\ State = SecurityEmpty
    /\ proposedKey = <<>>
    /\ securityKey = 0
    /\ keyMap = <<>>
    /\ sNum = 0
    /\ rNum = 0
    /\ op = Call("new", FALSE, 0, <<>>, <<>>)
    /\ rIncs = 0
    /\ sIncs = 0
    /\ seen = {}
    /\ again = FALSE
    /\ input = NoInput
    /\ message = <<>>
    /\ valid = "none"
    /\ outcome = NoResult
    /\ fed = 0
    /\ summed = NoSum
    /\ xored = NoXor

\* GenerateProposal that also starts both indices again.
GenerateProposalResetsIndices(key) ==
    /\ proposedKey' = key
    /\ State' = SecurityKeyProposed
    /\ sNum' = 0
    /\ rNum' = 0
    /\ op' = Call("GenerateProposal", FALSE, 0, <<>>, key)
    /\ UNCHANGED <<securityKey, keyMap, rIncs, sIncs>>

GenerateProposal(key) ==
    /\ proposedKey' = key
    /\ State' = SecurityKeyProposed
    /\ op' = Call("GenerateProposal", FALSE, 0, <<>>, key)
    /\ UNCHANGED <<securityKey, keyMap, sNum, rNum, rIncs, sIncs>>

\* Update that also takes State back to Empty when it clears the key.
UpdateResetsState(packet) ==
    LET u == UpdateFields(packet)
    IN  /\ securityKey' = u.securityKey
        /\ keyMap' = u.keyMap
        /\ sNum' = u.sNum
        /\ rNum' = u.rNum
        /\ rIncs' = 0
        /\ sIncs' = 0
        /\ op' = Call("Update", FALSE, 0, packet, <<>>)
        /\ State' = IF Len(packet) < 12 THEN SecurityEmpty ELSE State
        /\ UNCHANGED proposedKey

\* Update that marks the key Accepted once it derived one.
UpdateAcceptsState(packet) ==
    LET u == UpdateFields(packet)
    IN  /\ securityKey' = u.securityKey
        /\ keyMap' = u.keyMap
        /\ sNum' = u.sNum
        /\ rNum' = u.rNum
        /\ rIncs' = 0
        /\ sIncs' = 0
        /\ op' = Call("Update", FALSE, 0, packet, <<>>)
        /\ State' = IF Len(packet) < 12 THEN State ELSE SecurityKeyAccepted
        /\ UNCHANGED proposedKey

Update(packet) ==
    LET u == UpdateFields(packet)
    IN  /\ securityKey' = u.securityKey
        /\ keyMap' = u.keyMap
        /\ sNum' = u.sNum
        /\ rNum' = u.rNum
        /\ rIncs' = 0
        /\ sIncs' = 0
        /\ op' = Call("Update", FALSE, 0, packet, <<>>)
        /\ UNCHANGED <<State, proposedKey>>

\* AcceptProposal that hands Update proposedKey without the four zero bytes.
AcceptProposalNoPrefix ==
    LET packet == proposedKey
        u == UpdateFields(packet)
    IN  /\ securityKey' = u.securityKey
        /\ keyMap' = u.keyMap
        /\ sNum' = u.sNum
        /\ rNum' = u.rNum
        /\ rIncs' = 0
        /\ sIncs' = 0
        /\ State' = SecurityKeyAccepted
        /\ op' = Call("AcceptProposal", FALSE, 0, packet, <<>>)
        /\ UNCHANGED proposedKey

AcceptProposal ==
    LET packet == <<0, 0, 0, 0>> \o proposedKey
        u == UpdateFields(packet)
    IN  /\ securityKey' = u.securityKey
        /\ keyMap' = u.keyMap
        /\ sNum' = u.sNum
        /\ rNum' = u.rNum
        /\ rIncs' = 0
        /\ sIncs' = 0
        /\ State' = SecurityKeyAccepted
        /\ op' = Call("AcceptProposal", FALSE, 0, packet, <<>>)
        /\ UNCHANGED proposedKey

\* Whether an index that advanced `mine` times may advance once more.
MayAdvance(mine, other) ==
    /\ mine < MaxCalls
    /\ (mine < MaxInterleave \/ other <= MaxInterleave)

\* RKey that advances rNum before it reads the key map.
RKeyIncrementFirst(increment) ==
    IF Len(keyMap) = 0
    THEN /\ op' = Call("RKey", increment, 0, <<>>, <<>>)
         /\ UNCHANGED <<keyVars, rIncs, sIncs>>
    ELSE LET ret == IF increment THEN (rNum + 1) % ByteMod ELSE rNum
         IN  /\ increment => MayAdvance(rIncs, sIncs)
             /\ rNum' = ret
             /\ rIncs' = IF increment THEN rIncs + 1 ELSE rIncs
             /\ op' = Call("RKey", increment, keyMap[ret + 1], <<>>, <<>>)
             /\ UNCHANGED <<State, proposedKey, securityKey, keyMap, sNum, sIncs>>

\* RKey that advances rNum before it looks at the key map.
RKeyAdvancesWhenEmpty(increment) ==
    IF Len(keyMap) = 0
    THEN /\ rNum' = IF increment THEN (rNum + 1) % ByteMod ELSE rNum
         /\ op' = Call("RKey", increment, 0, <<>>, <<>>)
         /\ UNCHANGED <<State, proposedKey, securityKey, keyMap, sNum,
                        rIncs, sIncs>>
    ELSE LET ret == rNum
         IN  /\ increment => MayAdvance(rIncs, sIncs)
             /\ rNum' = IF increment THEN (rNum + 1) % ByteMod ELSE rNum
             /\ rIncs' = IF increment THEN rIncs + 1 ELSE rIncs
             /\ op' = Call("RKey", increment, keyMap[ret + 1], <<>>, <<>>)
             /\ UNCHANGED <<State, proposedKey, securityKey, keyMap, sNum, sIncs>>

RKey(increment) ==
    IF Len(keyMap) = 0
    THEN /\ op' = Call("RKey", increment, 0, <<>>, <<>>)
         /\ UNCHANGED <<keyVars, rIncs, sIncs>>
    ELSE LET ret == rNum
         IN  /\ increment => MayAdvance(rIncs, sIncs)
             /\ rNum' = IF increment THEN (rNum + 1) % ByteMod ELSE rNum
             /\ rIncs' = IF increment THEN rIncs + 1 ELSE rIncs
             /\ op' = Call("RKey", increment, keyMap[ret + 1], <<>>, <<>>)
             /\ UNCHANGED <<State, proposedKey, securityKey, keyMap, sNum, sIncs>>

\* SKey that advances the one index both directions share.
SKeyAdvancesBoth(increment) ==
    IF Len(keyMap) = 0
    THEN /\ op' = Call("SKey", increment, 0, <<>>, <<>>)
         /\ UNCHANGED <<keyVars, rIncs, sIncs>>
    ELSE LET ret == sNum
         IN  /\ increment => MayAdvance(sIncs, rIncs)
             /\ sNum' = IF increment THEN (sNum + 1) % ByteMod ELSE sNum
             /\ rNum' = IF increment THEN (rNum + 1) % ByteMod ELSE rNum
             /\ sIncs' = IF increment THEN sIncs + 1 ELSE sIncs
             /\ op' = Call("SKey", increment, keyMap[ret + 1], <<>>, <<>>)
             /\ UNCHANGED <<State, proposedKey, securityKey, keyMap, rIncs>>

SKey(increment) ==
    IF Len(keyMap) = 0
    THEN /\ op' = Call("SKey", increment, 0, <<>>, <<>>)
         /\ UNCHANGED <<keyVars, rIncs, sIncs>>
    ELSE LET ret == sNum
         IN  /\ increment => MayAdvance(sIncs, rIncs)
             /\ sNum' = IF increment THEN (sNum + 1) % ByteMod ELSE sNum
             /\ sIncs' = IF increment THEN sIncs + 1 ELSE sIncs
             /\ op' = Call("SKey", increment, keyMap[ret + 1], <<>>, <<>>)
             /\ UNCHANGED <<State, proposedKey, securityKey, keyMap, rNum, rIncs>>

\* One call on the SecurityKey.
KeyStep ==
    \/ \E key \in Proposals : GenerateProposal(key)
    \/ AcceptProposal
    \/ \E packet \in Packets : Update(packet)
    \/ \E increment \in BOOLEAN : RKey(increment)
    \/ \E increment \in BOOLEAN : SKey(increment)

UpdateCalls == {"Update", "AcceptProposal"}

Next == KeyStep /\ UNCHANGED <<histVars, frameVars>>

Spec == Init /\ [][Next]_vars

\* The same calls, with every call of Update (also the one AcceptProposal
\* makes) entered in `seen` with the key and key map it left, and with at
\* most MaxIdemCalls advances of an index between two Updates.
Recorded ==
    IF op'.name \in UpdateCalls
    THEN /\ seen' = seen \cup {[packet      |-> op'.packet,
                                securityKey |-> securityKey',
                                keyMap      |-> keyMap']}
         /\ again' = /\ \E r \in seen : r.packet = op'.packet
                     /\ rNum > 0
                     /\ sNum > 0
    ELSE UNCHANGED histVars

NextIdem ==
    /\ KeyStep
    /\ rIncs' <= MaxIdemCalls
    /\ sIncs' <= MaxIdemCalls
    /\ Recorded
    /\ UNCHANGED frameVars

SpecIdem == Init /\ [][NextIdem]_vars

(***************************************************************************)
(* The framing functions.  An index outside a slice makes Go panic: the    *)
(* functions return, beside their value, whether they panicked.            *)
(***************************************************************************)
\* XorMessageWith whose loop starts at the second byte.
XorMessageWithSkipFirst(msgIn, xor) ==
    [i \in 1 .. Len(msgIn) |->
        IF i = 1 THEN msgIn[i] ELSE BitXor(msgIn[i], xor)]

XorMessageWith(msgIn, xor) ==
    [i \in 1 .. Len(msgIn) |-> BitXor(msgIn[i], xor)]

\* b after b = byte(message[i] + b) for i = from, ..., to - 1, starting from
\* b = 0; the sum of the two halves, reduced like every byte.
RECURSIVE SumBytes(_, _, _)
SumBytes(msgIn, from, to) ==
    IF to <= from THEN 0
    ELSE IF to = from + 1 THEN msgIn[from + 1]
    ELSE LET mid == (from + to) \div 2
         IN  (SumBytes(msgIn, from, mid) + SumBytes(msgIn, mid, to)) % ByteMod

\* length is a byte: message[1] + 2 wraps to 0 and 1 for 254 and 255, and
\* the loop ends at the byte length - 1, which is 255 for length 0.
Checksum(msgIn) ==
    IF Len(msgIn) < 2 THEN [panic |-> TRUE, value |-> 0]
    ELSE LET length == (msgIn[2] + 2) % ByteMod
             stop   == (length + ByteMod - 1) % ByteMod
         IN  IF stop > Len(msgIn) THEN [panic |-> TRUE, value |-> 0]
             ELSE [panic |-> FALSE, value |-> SumBytes(msgIn, 0, stop)]

\* length is an int here: message[1] + 2 does not wrap.
ValidateChecksum(msgIn) ==
    IF Len(msgIn) < 2 THEN [panic |-> TRUE, value |-> FALSE]
    ELSE LET length == msgIn[2] + 2
         IN  IF Len(msgIn) < length THEN [panic |-> FALSE, value |-> FALSE]
             ELSE LET wantSum == msgIn[length]
                      sum     == Checksum(msgIn)
                  IN  [panic |-> sum.panic,
                       value |-> ~sum.panic /\ sum.value = wantSum]

\* return nil, 0, nil
Absent ==
    [status |-> "absent", decoded |-> <<>>, xor |-> 0,
     trailing |-> FALSE, remainder |-> <<>>]

Panicked ==
    [status |-> "panic", decoded |-> <<>>, xor |-> 0,
     trailing |-> FALSE, remainder |-> <<>>]

\* The end of ValidateAndDecodeMessage, once msg passed ValidateChecksum:
\* length is a byte again.
SplitDecoded(msgIn, msg, xor) ==
    LET length == (msg[2] + 2) % ByteMod
    IN  IF length > Len(msg) THEN Panicked
        ELSE IF Len(msgIn) > length
        THEN [status |-> "ok", decoded |-> SubSeq(msg, 1, length), xor |-> xor,
              trailing |-> TRUE,
              remainder |-> SubSeq(msgIn, length + 1, Len(msgIn))]
        ELSE [status |-> "ok", decoded |-> SubSeq(msg, 1, length), xor |-> xor,
              trailing |-> FALSE, remainder |-> <<>>]

\* ValidateAndDecodeMessage that gives up after the first candidate.
ValidateAndDecodeMessageNoFlip(msgIn) ==
    IF Len(msgIn) < 4 THEN Absent
    ELSE LET xor == msgIn[3]
             msg == XorMessageWith(msgIn, xor)
             ok  == ValidateChecksum(msg)
         IN  IF ok.panic THEN Panicked
             ELSE IF ok.value THEN SplitDecoded(msgIn, msg, xor)
             ELSE Absent

ValidateAndDecodeMessage(msgIn) ==
    IF Len(msgIn) < 4 THEN Absent
    ELSE LET xor  == msgIn[3]
             msg  == XorMessageWith(msgIn, xor)
             ok   == ValidateChecksum(msg)
             xor1 == BitXor(xor, 1)
             msg1 == XorMessageWith(msgIn, xor1)
             ok1  == ValidateChecksum(msg1)
         IN  IF ok.panic THEN Panicked
             ELSE IF ok.value THEN SplitDecoded(msgIn, msg, xor)
             ELSE IF ok1.panic THEN Panicked
             ELSE IF ~ok1.value THEN Absent
             ELSE SplitDecoded(msgIn, msg1, xor1)

\* A SecurityKey nothing was called on, and a buffer from the transport.
InitFrame ==
    /\ State = SecurityEmpty
    /\ proposedKey = <<>>
    /\ securityKey = 0
    /\ keyMap = <<>>
    /\ sNum = 0
    /\ rNum = 0
    /\ op = Call("new", FALSE, 0, <<>>, <<>>)
    /\ rIncs = 0
    /\ sIncs = 0
    /\ seen = {}
    /\ again = FALSE
    /\ input \in Inputs
    /\ message = BufferOf(input)
    /\ valid = "none"
    /\ outcome = NoResult
    /\ fed = 0
    /\ summed = NoSum
    /\ xored = NoXor

\* ValidateChecksum(message) is called.
Validate ==
    /\ valid = "none"
    /\ valid' = LET v == ValidateChecksum(message)
                IN  IF v.panic THEN "panic"
                    ELSE IF v.value THEN "true" ELSE "false"
    /\ UNCHANGED <<input, message, outcome, fed, summed, xored>>

\* Checksum(message) is called.
Sum ==
    /\ summed.status = "none"
    /\ summed' = LET c == Checksum(message)
                 IN  IF c.panic THEN [status |-> "panic", value |-> 0]
                     ELSE [status |-> "ok", value |-> c.value]
    /\ UNCHANGED <<input, message, valid, outcome, fed, xored>>

\* XorMessageWith(message, xor) is called, and then once more on what it
\* returned; message is only read.
Xor(xor) ==
    /\ xored.status = "none"
    /\ xored' = LET msg == XorMessageWith(message, xor)
                IN  [status |-> "ok", xor |-> xor, once |-> msg,
                     twice |-> XorMessageWith(msg, xor)]
    /\ UNCHANGED <<input, message, valid, outcome, fed, summed>>

\* ValidateAndDecodeMessage(message) is called.
Decode ==
    /\ outcome.status = "none"
    /\ outcome' = ValidateAndDecodeMessage(message)
    /\ UNCHANGED <<input, message, valid, fed, summed, xored>>

\* The caller hands the trailing data back as the next buffer.
Feed ==
    /\ outcome.status = "ok"
    /\ outcome.trailing
    /\ fed < MaxFeeds
    /\ message' = outcome.remainder
    /\ fed' = fed + 1
    /\ valid' = "none"
    /\ outcome' = NoResult
    /\ summed' = NoSum
    /\ xored' = NoXor
    /\ UNCHANGED input

NextFrame ==
    /\ \/ Validate
       \/ Sum
       \/ \E xor \in XorArgs : Xor(xor)
       \/ Decode
       \/ Feed
    /\ UNCHANGED <<keyVars, callVars, histVars>>

SpecFrame == InitFrame /\ [][NextFrame]_vars

(***************************************************************************)
(* Reference definitions the claims are stated with: the key as a sum of   *)
(* bits, and the RC4 key-scheduling algorithm for a key of any length.     *)
(***************************************************************************)
\* The byte whose bit k is bit 3 of packet[4 + k].
KeyFromBits(packet) ==
    LET bit3(k) == (packet[5 + k] \div 8) % 2
    IN  bit3(0) + 2 * bit3(1) + 4 * bit3(2) + 8 * bit3(3) + 16 * bit3(4)
        + 32 * bit3(5) + 64 * bit3(6) + 128 * bit3(7)

\* The sequence S with its entries at positions p and q exchanged.
Exchange(S, p, q) ==
    LET lo == IF p < q THEN p ELSE q
        hi == IF p < q THEN q ELSE p
    IN  IF p = q THEN S
        ELSE SubSeq(S, 1, lo - 1) \o <<S[hi]>> \o SubSeq(S, lo + 1, hi - 1)
             \o <<S[lo]>> \o SubSeq(S, hi + 1, Len(S))

\* RC4 key scheduling: S starts as the identity table and j as 0; round i,
\* for i = 0..255, sets j := (j + S[i] + key[i mod keylength]) mod 256 and
\* exchanges S[i] and S[j].  RC4Round is one round on <<S, j>>.
RC4Round(key, Sj, i) ==
    LET S == Sj[1]
        j == (Sj[2] + S[i + 1] + key[(i % Len(key)) + 1]) % 256
    IN  <<Exchange(S, i + 1, j + 1), j>>

\* Rounds lo, ..., hi - 1 on <<S, j>>, the lower half of the rounds first.
RECURSIVE RC4Rounds(_, _, _, _)
RC4Rounds(key, Sj, lo, hi) ==
    IF hi <= lo THEN Sj
    ELSE IF hi = lo + 1 THEN RC4Round(key, Sj, lo)
    ELSE CHOOSE after \in
             { RC4Rounds(key, half, (lo + hi) \div 2, hi) :
                 half \in {RC4Rounds(key, Sj, lo, (lo + hi) \div 2)} } : TRUE

RC4Schedule(key) ==
    RC4Rounds(key, <<SubSeq([x \in 1 .. 256 |-> x - 1], 1, 256), 0>>, 0, 256)[1]

\* RC4Schedule(<<173>>), from an RC4 implementation outside this module.
RC4ScheduleAD ==
    << 173, 91, 5, 133, 154, 21, 23, 191, 100, 239, 62, 134, 15, 201, 7, 61,
       250, 17, 129, 55, 248, 38, 196, 18, 208, 204, 113, 1, 44, 214, 161, 183,
       58, 106, 123, 167, 150, 66, 3, 8, 223, 28, 4, 122, 87, 102, 206, 0,
       108, 104, 194, 111, 33, 72, 205, 200, 84, 51, 244, 220, 120, 126, 82, 35,
       116, 103, 94, 210, 212, 174, 30, 236, 78, 42, 98, 90, 83, 77, 198, 144,
       95, 85, 105, 245, 19, 112, 12, 224, 181, 68, 227, 172, 180, 232, 13, 213,
       251, 50, 164, 56, 52, 147, 246, 80, 182, 41, 57, 65, 138, 252, 73, 14,
       31, 101, 70, 49, 192, 234, 229, 152, 48, 231, 137, 177, 218, 249, 254, 160,
       240, 162, 187, 89, 166, 175, 241, 81, 37, 217, 197, 176, 39, 145, 228, 119,
       188, 43, 25, 26, 168, 27, 238, 71, 110, 189, 107, 60, 146, 76, 230, 151,
       130, 255, 193, 184, 179, 165, 233, 135, 158, 114, 207, 10, 171, 22, 131, 216,
       153, 32, 124, 54, 45, 118, 127, 115, 142, 202, 225, 109, 235, 169, 67, 75,
       156, 195, 199, 211, 46, 219, 117, 96, 74, 243, 203, 139, 6, 121, 209, 149,
       140, 2, 185, 253, 178, 24, 170, 20, 186, 155, 9, 93, 141, 163, 136, 190,
       36, 237, 159, 132, 64, 215, 34, 47, 97, 222, 59, 148, 128, 29, 63, 79,
       40, 86, 99, 16, 88, 11, 92, 125, 242, 157, 221, 226, 69, 143, 53, 247 >>

\* The schedules of the one-byte keys the inputs can produce.
RC4ScheduleOf == (173 :> RC4Schedule(<<173>>)) @@ (37 :> RC4Schedule(<<37>>))

ScenarioPacket == <<0, 0, 0, 0, 8, 0, 8, 8, 0, 8, 0, 8>>

IsBijection(km) == Len(km) = 256 /\ {km[i] : i \in 1 .. 256} = Byte

\* The sum modulo 256 of the bytes at positions lo .. hi of s, counted from 1.
RECURSIVE FrameSum(_, _, _)
FrameSum(s, lo, hi) ==
    IF hi < lo THEN 0
    ELSE IF hi = lo THEN s[lo] % 256
    ELSE (FrameSum(s, lo, (lo + hi) \div 2)
          + FrameSum(s, ((lo + hi) \div 2) + 1, hi)) % 256

\* Whether buffer b, de-obfuscated with x, passes ValidateChecksum.
Passes(b, x) == ValidateChecksum(Obfuscated(b, x)).value

(***************************************************************************)
(* C1.  The key map is always either empty or a table of 256 entries in    *)
(* which every value 0..255 appears exactly once; after an Update (or the  *)
(* Update made by AcceptProposal) with a packet of 12 bytes or more it is  *)
(* such a table.                                                           *)
(***************************************************************************)
C1_KeyMapEmptyOrBijection ==
    /\ keyMap = <<>> \/ IsBijection(keyMap)
    /\ (op.name \in UpdateCalls /\ Len(op.packet) >= 12) => IsBijection(keyMap)

C1_Witness ==
    /\ op.name = "Update"
    /\ Len(op.packet) >= 12
    /\ IsBijection(keyMap)
    /\ keyMap # IdentityMap

(***************************************************************************)
(* C2, as claimed.  State only moves forward along Empty -> Proposed ->    *)
(* Accepted: no step lowers it, and no step takes it from Empty straight   *)
(* to Accepted.                                                            *)
(***************************************************************************)
C2_OnlyForward ==
    [][ /\ State' >= State
        /\ ~(State = SecurityEmpty /\ State' = SecurityKeyAccepted) ]_vars

(***************************************************************************)
(* C2, amended.  State never returns to Empty once it has left it, and it  *)
(* changes only by GenerateProposal, which makes it Proposed from any      *)
(* state (Accepted included), and by AcceptProposal, which makes it        *)
(* Accepted from any state (Empty included); Update, RKey and SKey leave   *)
(* it as it is.                                                            *)
(***************************************************************************)
C2_NeverBackToEmpty ==
    [][ /\ State # SecurityEmpty => State' # SecurityEmpty
        /\ op'.name = "GenerateProposal" => State' = SecurityKeyProposed
        /\ op'.name = "AcceptProposal" => State' = SecurityKeyAccepted
        /\ op'.name \in {"Update", "RKey", "SKey"} => State' = State ]_vars

C2_Witness ==
    /\ State = SecurityKeyAccepted
    /\ op.name = "Update"
    /\ Len(op.packet) < 12
    /\ proposedKey # <<>>

(***************************************************************************)
(* C3.  With a key map in place, the k-th RKey(true) since the last Update *)
(* returns keyMap[(k - 1) mod 256], the entry read before rNum moves on:   *)
(* calls 1..256 return keyMap[0..255] in order and call 257 returns        *)
(* keyMap[0] again, rNum having wrapped from 255 to 0.                     *)
(***************************************************************************)
C3_RotationInOrder ==
    (op.name = "RKey" /\ op.inc /\ keyMap # <<>>) =>
        /\ rIncs >= 1
        /\ op.ret = keyMap[((rIncs - 1) % 256) + 1]
        /\ rNum = rIncs % 256
        /\ rIncs = 257 => op.ret = keyMap[1]

C3_Witness ==
    /\ op.name = "RKey"
    /\ op.inc
    /\ rIncs = 257
    /\ rNum = 1
    /\ op.ret = keyMap[1]

(***************************************************************************)
(* C4.  An Update with a packet shorter than 12 bytes leaves the key map   *)
(* empty, the key 0 and both indices 0; while the key map is empty it      *)
(* stays empty until Update is called (directly or by AcceptProposal) with *)
(* a packet of 12 bytes or more, and every RKey and SKey call made         *)
(* meanwhile returns 0, with increment true or false.                      *)
(***************************************************************************)
C4_ClearSemantics ==
    [][ /\ (op'.name \in UpdateCalls /\ Len(op'.packet) < 12) =>
              /\ keyMap' = <<>>
              /\ securityKey' = 0
              /\ sNum' = 0
              /\ rNum' = 0
        /\ (keyMap = <<>> /\ ~(op'.name \in UpdateCalls /\ Len(op'.packet) >= 12)) =>
              keyMap' = <<>>
        /\ (keyMap = <<>> /\ op'.name \in {"RKey", "SKey"}) => op'.ret = 0 ]_vars

C4_Witness ==
    /\ op.name = "RKey"
    /\ op.inc
    /\ op.ret = 0
    /\ keyMap = <<>>
    /\ securityKey = 0
    /\ State = SecurityKeyAccepted
    /\ proposedKey # <<>>

(***************************************************************************)
(* C5.  Update is a function of its packet alone: whatever happened        *)
(* before, two calls with the same packet leave the same key and the same  *)
(* key map, and every call leaves both indices 0.                          *)
(***************************************************************************)
C5_UpdateIdempotent ==
    /\ \A a \in seen : \A b \in seen : a.packet = b.packet => a = b
    /\ op.name \in UpdateCalls => (sNum = 0 /\ rNum = 0)

C5_Witness ==
    /\ again
    /\ op.name = "Update"
    /\ Len(op.packet) >= 12
    /\ Cardinality(seen) >= 3

(***************************************************************************)
(* C6.  After an Update with a packet of 12 bytes or more the key is the   *)
(* byte whose bit k is bit 3 of packet[4 + k], and the key map is the RC4  *)
(* key schedule of that one byte as the key; for the scenario packet the   *)
(* key is 0xAD = 173.                                                      *)
(***************************************************************************)
C6_Derivation ==
    (op.name \in UpdateCalls /\ Len(op.packet) >= 12) =>
        /\ securityKey = KeyFromBits(op.packet)
        /\ securityKey \in DOMAIN RC4ScheduleOf
        /\ keyMap = RC4ScheduleOf[securityKey]
        /\ op.packet = ScenarioPacket =>
              (securityKey = 173 /\ keyMap = RC4ScheduleAD)

C6_Witness ==
    /\ op.name = "Update"
    /\ op.packet = ScenarioPacket
    /\ securityKey = 173
    /\ keyMap = RC4ScheduleAD

C6_WitnessOtherBits ==
    /\ op.name = "Update"
    /\ Len(op.packet) = 13
    /\ securityKey = 37

(***************************************************************************)
(* C7, as claimed.  AcceptProposal always hands Update a packet of exactly *)
(* 12 bytes, four zero bytes and then the 8 bytes of the proposal, and     *)
(* leaves State Accepted, a non-empty key map derived from the proposal    *)
(* and both indices 0.                                                     *)
(***************************************************************************)
C7_AcceptAlwaysDerives ==
    op.name = "AcceptProposal" =>
        /\ Len(op.packet) = 12
        /\ op.packet = <<0, 0, 0, 0>> \o proposedKey
        /\ State = SecurityKeyAccepted
        /\ keyMap # <<>>
        /\ keyMap = RC4ScheduleOf[KeyFromBits(op.packet)]
        /\ sNum = 0
        /\ rNum = 0

(***************************************************************************)
(* C7, amended.  AcceptProposal hands Update four zero bytes followed by   *)
(* proposedKey and leaves State Accepted and both indices 0.  Once         *)
(* GenerateProposal has been called the packet has 12 bytes and the key    *)
(* map is the non-empty table derived from the proposal; before any        *)
(* GenerateProposal proposedKey is empty, the packet has 4 bytes and the   *)
(* key map and key are cleared.                                            *)
(***************************************************************************)
C7_AcceptDerivesFromProposal ==
    op.name = "AcceptProposal" =>
        /\ op.packet = <<0, 0, 0, 0>> \o proposedKey
        /\ State = SecurityKeyAccepted
        /\ sNum = 0
        /\ rNum = 0
        /\ IF proposedKey # <<>>
           THEN /\ Len(op.packet) = 12
                /\ keyMap # <<>>
                /\ securityKey = KeyFromBits(op.packet)
                /\ keyMap = RC4ScheduleOf[securityKey]
           ELSE /\ Len(op.packet) = 4
                /\ keyMap = <<>>
                /\ securityKey = 0

C7_Witness ==
    /\ op.name = "AcceptProposal"
    /\ proposedKey = <<255, 247, 12, 0, 7, 24, 240, 128>>
    /\ securityKey = 37
    /\ keyMap # <<>>

(***************************************************************************)
(* C8.  For a buffer made of two validly checksummed and validly           *)
(* obfuscated frames, of any declared length, ValidateAndDecodeMessage     *)
(* returns the first frame de-obfuscated and the raw bytes of the second   *)
(* frame, unchanged, as the remainder.                                     *)
(***************************************************************************)
C8_SplitsTwoFrames ==
    (input.kind = "pair" /\ fed = 0 /\ outcome.status # "none") =>
        /\ outcome.status = "ok"
        /\ outcome.decoded = input.f1
        /\ outcome.trailing
        /\ outcome.remainder = Obfuscated(input.f2, input.x2)

\* The same for first frames of declared length up to 253, where
\* message[1] + 2 fits a byte.
C8_SplitsTwoFramesUpTo253 ==
    (input.kind = "pair" /\ input.f1[2] <= 253) => C8_SplitsTwoFrames

(***************************************************************************)
(* C9.  For a validly checksummed frame f obfuscated with x ^ 1 whose      *)
(* third raw byte is x, alone or followed by other bytes,                  *)
(* ValidateAndDecodeMessage succeeds by its second candidate: it returns f *)
(* as the decoded frame and x ^ 1 as the key used.                         *)
(***************************************************************************)
C9_FlipFallbackDecodes ==
    (input.kind = "flip" /\ fed = 0 /\ outcome.status # "none") =>
        /\ outcome.status = "ok"
        /\ outcome.decoded = input.f1
        /\ outcome.xor = XorOf(input.x1, 1)

\* C9 in the cases where the fallback is needed and a header can be read:
\* buffers of 4 bytes or more that do not pass ValidateChecksum under the
\* first candidate, the third raw byte itself.
C9_FlipFallbackWhereFirstFails ==
    (/\ input.kind = "flip"
     /\ Len(BufferOf(input)) >= 4
     /\ ~ValidateChecksum(XorMessageWith(BufferOf(input), input.x1)).value) =>
        C9_FlipFallbackDecodes

\* The same for frames of declared length up to 253, where message[1] + 2
\* fits a byte.
C9_FlipFallbackUpTo253 ==
    (input.kind = "flip" /\ input.f1[2] <= 253) =>
        C9_FlipFallbackWhereFirstFails

(***************************************************************************)
(* C10.  No call aborts: ValidateChecksum and ValidateAndDecodeMessage     *)
(* return a result for buffers of every length, 0 to 3 bytes included.     *)
(***************************************************************************)
C10_NoAbort ==
    /\ valid # "panic"
    /\ outcome.status # "panic"

(***************************************************************************)
(* C11.  ValidateAndDecodeMessage returns (absent, 0, absent) exactly when *)
(* the buffer has fewer than 4 bytes or passes ValidateChecksum under      *)
(* neither candidate, message[2] and message[2] ^ 1; a failed call returns *)
(* no decoded frame, the key 0 and no remainder.                           *)
(***************************************************************************)
C11_AbsentExactlyOnFailure ==
    outcome.status # "none" =>
        /\ outcome.status = "absent" <=>
              \/ Len(message) < 4
              \/ /\ ~Passes(message, message[3])
                 /\ ~Passes(message, XorOf(message[3], 1))
        /\ outcome.status = "absent" =>
              /\ outcome.decoded = <<>>
              /\ outcome.xor = 0
              /\ ~outcome.trailing
              /\ outcome.remainder = <<>>

C11_Witness ==
    /\ outcome.status = "absent"
    /\ Len(message) >= 4
    /\ ~Passes(message, message[3])
    /\ ~Passes(message, XorOf(message[3], 1))

C11_WitnessSecondCandidate ==
    /\ outcome.status = "ok"
    /\ ~Passes(message, message[3])
    /\ Passes(message, XorOf(message[3], 1))

(***************************************************************************)
(* C12.  For a message of at least message[1] + 2 bytes, with message[1]   *)
(* any byte 0..255, Checksum returns the sum modulo 256 of message[0] ..   *)
(* message[length - 2], length = message[1] + 2 being taken as it is, up   *)
(* to 257.                                                                 *)
(***************************************************************************)
C12_ChecksumFullLength ==
    (/\ summed.status # "none"
     /\ Len(message) >= 2
     /\ Len(message) >= message[2] + 2) =>
        /\ summed.status = "ok"
        /\ summed.value = FrameSum(message, 1, message[2] + 1)

\* The same for message[1] up to 254: for 254 the byte length is 0 and the
\* loop ends at the byte 255, which is length - 1 of the unwrapped length.
C12_ChecksumUpTo254 ==
    (Len(message) >= 2 /\ message[2] <= 254) => C12_ChecksumFullLength

(***************************************************************************)
(* C13.  For a message with a header, ValidateChecksum returns false when  *)
(* the message has fewer than message[1] + 2 bytes, and otherwise returns  *)
(* true exactly when the sum modulo 256 of message[0 .. length - 2] equals *)
(* message[length - 1], for every length = message[1] + 2 up to 257.       *)
(***************************************************************************)
C13_ValidateFullLength ==
    (valid # "none" /\ Len(message) >= 2) =>
        valid = IF Len(message) < message[2] + 2 THEN "false"
                ELSE IF FrameSum(message, 1, message[2] + 1)
                            = message[message[2] + 2]
                     THEN "true"
                     ELSE "false"

\* The same for message[1] up to 254.
C13_ValidateUpTo254 ==
    (Len(message) >= 2 /\ message[2] <= 254) => C13_ValidateFullLength

(***************************************************************************)
(* C14.  XorMessageWith(b, x) returns a buffer as long as b whose i-th     *)
(* byte is b[i] XOR x and leaves b as it was; applied to its own result    *)
(* with the same x it returns b again, so ValidateChecksum gives the same  *)
(* for the buffer XORed twice as for b.                                    *)
(***************************************************************************)
C14_XorInvolution ==
    xored.status # "none" =>
        /\ Len(xored.once) = Len(message)
        /\ \A i \in 1 .. Len(message) :
              xored.once[i] = XorOf(message[i], xored.xor)
        /\ fed = 0 => message = BufferOf(input)
        /\ xored.twice = message
        /\ ValidateChecksum(xored.twice) = ValidateChecksum(message)

C14_Witness ==
    /\ xored.status = "ok"
    /\ xored.xor = 173
    /\ Len(message) >= 256
    /\ xored.once # message
    /\ xored.twice = message
    /\ ValidateChecksum(message).value

(***************************************************************************)
(* C17.  When ValidateAndDecodeMessage succeeds, with length the second    *)
(* byte of the de-obfuscated buffer plus 2, not wrapped (2..257): the      *)
(* decoded frame is the first length bytes of the buffer XORed with the    *)
(* key returned and passes ValidateChecksum; the key is message[2], or     *)
(* message[2] ^ 1 when message[2] does not validate; the remainder is      *)
(* message[length:] when the buffer is longer than length and absent when  *)
(* it is not.                                                              *)
(***************************************************************************)
C17_DecodedFrameAndRemainder ==
    outcome.status = "ok" =>
        LET msg    == Obfuscated(message, outcome.xor)
            length == msg[2] + 2
        IN  /\ Len(outcome.decoded) = length
            /\ outcome.decoded = SubSeq(msg, 1, length)
            /\ ValidateChecksum(outcome.decoded).value
            /\ outcome.xor \in {message[3], XorOf(message[3], 1)}
            /\ Passes(message, message[3]) => outcome.xor = message[3]
            /\ IF Len(message) > length
               THEN /\ outcome.trailing
                    /\ outcome.remainder
                          = SubSeq(message, length + 1, Len(message))
               ELSE /\ ~outcome.trailing
                    /\ outcome.remainder = <<>>

\* The same for declared lengths up to 253, where length fits a byte.
C17_DecodedUpTo253 ==
    (outcome.status = "ok"
     /\ Obfuscated(message, outcome.xor)[2] <= 253) =>
        C17_DecodedFrameAndRemainder

(***************************************************************************)
(* C18.  Whenever ValidateAndDecodeMessage succeeds the decoded frame is   *)
(* not empty and the remainder is shorter than the buffer, so a caller who *)
(* hands the remainder back gets a shorter buffer every time.              *)
(***************************************************************************)
C18_Progress ==
    outcome.status = "ok" =>
        /\ Len(outcome.decoded) > 0
        /\ Len(outcome.remainder) < Len(message)

\* The same for declared lengths up to 253.
C18_ProgressUpTo253 ==
    (outcome.status = "ok"
     /\ Obfuscated(message, outcome.xor)[2] <= 253) =>
        C18_Progress

\* The caller of C18 after MaxFeeds rounds: still the buffer the transport
\* delivered.
C18_SameBufferAgain ==
    /\ fed = MaxFeeds
    /\ message = BufferOf(input)
    /\ outcome.status = "ok"
    /\ outcome.remainder = message

(***************************************************************************)
(* C15.  Update leaves State as it was, for a packet shorter than 12 bytes *)
(* as for a longer one and from each of Empty, Proposed and Accepted; it   *)
(* leaves proposedKey as it was, and both indices are 0 after it.          *)
(***************************************************************************)
C15_UpdateKeepsState ==
    [][ op'.name = "Update" =>
          /\ State' = State
          /\ proposedKey' = proposedKey
          /\ sNum' = 0
          /\ rNum' = 0 ]_vars

C15_Witness ==
    /\ op.name = "Update"
    /\ Len(op.packet) >= 12
    /\ State = SecurityKeyProposed
    /\ proposedKey # <<>>
    /\ keyMap # <<>>

C15_WitnessEmpty ==
    /\ op.name = "Update"
    /\ Len(op.packet) >= 12
    /\ State = SecurityEmpty

C15_WitnessAccepted ==
    /\ op.name = "Update"
    /\ Len(op.packet) >= 12
    /\ State = SecurityKeyAccepted

(***************************************************************************)
(* C16.  RKey never changes sNum and SKey never changes rNum; neither      *)
(* changes the key map, the key, proposedKey or State; with increment      *)
(* false they change no field, and return the entry at the index as it     *)
(* stands.  With a key map in place and RKey and SKey calls interleaved,   *)
(* the k-th RKey(true) since the last Update returns                       *)
(* keyMap[(k - 1) mod 256], and so does the k-th SKey(true).               *)
(***************************************************************************)
C16_IndependentIndices ==
    [][ /\ op'.name = "RKey" =>
              /\ sNum' = sNum
              /\ sIncs' = sIncs
              /\ UNCHANGED <<keyMap, securityKey, proposedKey, State>>
              /\ ~op'.inc => rNum' = rNum
              /\ keyMap # <<>> => op'.ret = keyMap[rNum + 1]
              /\ (keyMap # <<>> /\ op'.inc) =>
                    /\ rIncs' = rIncs + 1
                    /\ op'.ret = keyMap[((rIncs' - 1) % 256) + 1]
        /\ op'.name = "SKey" =>
              /\ rNum' = rNum
              /\ rIncs' = rIncs
              /\ UNCHANGED <<keyMap, securityKey, proposedKey, State>>
              /\ ~op'.inc => sNum' = sNum
              /\ keyMap # <<>> => op'.ret = keyMap[sNum + 1]
              /\ (keyMap # <<>> /\ op'.inc) =>
                    /\ sIncs' = sIncs + 1
                    /\ op'.ret = keyMap[((sIncs' - 1) % 256) + 1] ]_vars

C16_Witness ==
    /\ op.name = "SKey"
    /\ op.inc
    /\ sIncs = 257
    /\ sNum = 1
    /\ rIncs = 1
    /\ rNum = 1
    /\ op.ret = keyMap[1]

(***************************************************************************)
(* C19.  GenerateProposal stores 8 bytes as proposedKey, returns these 8   *)
(* bytes and makes State Proposed; it leaves the key, the key map and both *)
(* indices as they were, so the RKey or SKey call that follows it returns  *)
(* the entry of the same key map at the same index as before it.           *)
(***************************************************************************)
C19_ProposalTouchesOnlyProposal ==
    [][ /\ op'.name = "GenerateProposal" =>
              /\ Len(proposedKey') = 8
              /\ op'.out = proposedKey'
              /\ State' = SecurityKeyProposed
              /\ UNCHANGED <<securityKey, keyMap, sNum, rNum>>
        /\ (op.name = "GenerateProposal" /\ op'.name = "RKey") =>
              op'.ret = IF keyMap = <<>> THEN 0 ELSE keyMap[rNum + 1]
        /\ (op.name = "GenerateProposal" /\ op'.name = "SKey") =>
              op'.ret = IF keyMap = <<>> THEN 0 ELSE keyMap[sNum + 1] ]_vars

C19_Witness ==
    /\ op.name = "GenerateProposal"
    /\ Len(proposedKey) = 8
    /\ State = SecurityKeyProposed
    /\ keyMap # <<>>
    /\ rNum = 1
    /\ sNum = 1

(***************************************************************************)
(* C20.  In every reachable state an empty key map comes with both indices *)
(* 0: no RKey(true) or SKey(true) made while the key map was empty has     *)
(* advanced an index.  So the first byte RKey or SKey returns after the    *)
(* next Update that derives a key is keyMap[0].                            *)
(***************************************************************************)
C20_EmptyMapZeroIndices ==
    /\ keyMap = <<>> =>
          /\ sNum = 0
          /\ rNum = 0
          /\ rIncs = 0
          /\ sIncs = 0
    /\ (/\ keyMap # <<>>
        /\ op.name = "RKey"
        /\ rIncs = (IF op.inc THEN 1 ELSE 0)) => op.ret = keyMap[1]
    /\ (/\ keyMap # <<>>
        /\ op.name = "SKey"
        /\ sIncs = (IF op.inc THEN 1 ELSE 0)) => op.ret = keyMap[1]

C20_Witness ==
    /\ op.name = "SKey"
    /\ op.inc
    /\ op.ret = 0
    /\ keyMap = <<>>
    /\ sNum = 0
    /\ State = SecurityKeyProposed
    /\ proposedKey # <<>>

=============================================================================
